---- MODULE Spec2Model ----
(***************************************************************************)
(* Model of tutorial2/callbacks.py: the Keras callback AUCHistory, whose   *)
(* on_epoch_end predicts on the validation inputs, computes the ROC AUC    *)
(* of the prediction against the validation labels and prints it.          *)
(*                                                                         *)
(* Two hosts drive the callback.  Spec is a training run (the fit loop     *)
(* invoking on_epoch_end once after every epoch, the weights changing      *)
(* between epochs).  SpecCalls is a caller that invokes on_epoch_end       *)
(* directly, several times, on a fixed predictor and validation split.     *)
(*                                                                         *)
(* Scores are hundredths (0.35 is 35); an AUC is the exact fraction        *)
(* <<num, den>>, floating-point rounding is not modelled.                  *)
(***************************************************************************)
EXTENDS Integers, Sequences, FiniteSets

VARIABLES
    host,             \* "fit" (training loop) or "direct" (plain caller)
    validation_data,  \* self.model.validation_data: input arrays, then labels
    weights,          \* the predictor's state: validation row -> score
    default_logs,     \* the object bound to the default argument logs={}
    host_logs,        \* the logs mapping the host owns and may pass
    nb_epoch,         \* epochs the fit loop is to run
    epoch,            \* the fit loop's epoch index (epochs fully finished)
    ncalls,           \* invocations of on_epoch_end so far
    pc,               \* control position
    arg_epoch,        \* parameter epoch of the running call
    logs_ref,         \* what parameter logs is bound to: "default" | "host"
    y_pred,           \* local y_pred (Unbound or Bound(scores))
    auc,              \* local auc (Unbound or Bound(<<num, den>>))
    exc,              \* the exception in flight or last raised
    steps,            \* library calls made by the running call, in order
    out               \* standard output: the lines printed so far

vars == <<host, validation_data, weights, default_logs, host_logs, nb_epoch,
          epoch, ncalls, pc, arg_epoch, logs_ref, y_pred, auc, exc, steps, out>>

context == <<validation_data, weights, default_logs, host_logs>>

\* ------------------------------------------------------------------ bounds
MaxRows == 3
MaxLoopRows == 2
MaxEpochs == 2
MaxCalls == 2

Scores == {10, 35, 40, 80}
Labels == {0, 1}
InputCounts == {1, 2}

\* ----------------------------------------------------------------- helpers
Unbound == <<>>
Bound(v) == <<v>>
ValueOf(b) == b[1]

NoExc == [kind |-> "none", msg |-> ""]
PredictError == [kind |-> "PredictError", msg |-> "predict"]
ValueError(m) == [kind |-> "ValueError", msg |-> m]

EmptyMap == [k \in {} |-> 0]
LossMap == [k \in {"loss"} |-> 1]
LogsChoices == {EmptyMap, LossMap}

Last(s) == s[Len(s)]
ButLast(s) == SubSeq(s, 1, Len(s) - 1)

SetMax(S) == CHOOSE x \in S : \A y \in S : y <= x

Rows(n) == [i \in 1..n |-> i]

ValidationData(k, n, y) == [j \in 1..k |-> Rows(n)] \o <<y>>

\* ------------------------------------------------ model.predict (line 9)
Predict(w, inputs) == [i \in 1..Len(inputs[1]) |-> w[inputs[1][i]]]

\* ------------------------------------------- roc_auc_score (line 10)
Classes(y) == {y[i] : i \in DOMAIN y}

\* faulty variant: a strict threshold, so tied scores are never counted together
TpsStrict(y, s, pos, t) == Cardinality({i \in DOMAIN s : s[i] > t /\ y[i] = pos})

Tps(y, s, pos, t) == Cardinality({i \in DOMAIN s : s[i] >= t /\ y[i] = pos})

Fps(y, s, pos, t) == Cardinality({i \in DOMAIN s : s[i] >= t /\ y[i] # pos})

RECURSIVE TrapzSum(_, _, _, _, _, _)
TrapzSum(y, s, pos, T, ptp, pfp) ==
    IF T = {} THEN 0
    ELSE LET t == SetMax(T)
             tp == Tps(y, s, pos, t)
             fp == Fps(y, s, pos, t)
         IN (fp - pfp) * (tp + ptp) + TrapzSum(y, s, pos, T \ {t}, tp, fp)

TrapzAuc(y, s) ==
    LET pos == SetMax(Classes(y))
        P == Cardinality({i \in DOMAIN y : y[i] = pos})
        N == Len(y) - P
    IN <<TrapzSum(y, s, pos, Classes(s), 0, 0), 2 * P * N>>

roc_auc_score(y_true, y_score) ==
    IF Cardinality(Classes(y_true)) # 2
    THEN [ok |-> FALSE, value |-> <<0, 0>>, exc |-> ValueError("one_class")]
    ELSE IF Len(y_true) # Len(y_score)
    THEN [ok |-> FALSE, value |-> <<0, 0>>, exc |-> ValueError("inconsistent_length")]
    ELSE [ok |-> TRUE, value |-> TrapzAuc(y_true, y_score), exc |-> NoExc]

\* ------------------------------------------------------- print (line 11)
Prefix == "Epoch validation AUC: "
Format(a) == <<Prefix, a>>

\* -------------------------------------------------------------------- Init
InitCommon ==
    /\ default_logs = EmptyMap
    /\ epoch = 0
    /\ ncalls = 0
    /\ arg_epoch = 0
    /\ logs_ref = "default"
    /\ y_pred = Unbound
    /\ auc = Unbound
    /\ exc = NoExc
    /\ steps = <<>>
    /\ out = <<>>

InitData(maxrows) ==
    \E k \in InputCounts, n \in 1..maxrows, m \in 1..maxrows :
        /\ \E y \in [1..m -> Labels] : validation_data = ValidationData(k, n, y)
        /\ weights \in [1..n -> Scores]

Init ==
    /\ host = "fit"
    /\ InitData(MaxLoopRows)
    /\ host_logs = LossMap
    /\ nb_epoch \in 1..MaxEpochs
    /\ pc = "train"
    /\ InitCommon

\* the documented scenario: labels [0,0,1,1], scores [0.1,0.4,0.35,0.8]
InitScenario ==
    /\ validation_data = ValidationData(1, 4, <<0, 0, 1, 1>>)
    /\ weights = <<10, 40, 35, 80>>

InitCalls ==
    /\ host = "direct"
    /\ (InitData(MaxRows) \/ InitScenario)
    /\ host_logs \in LogsChoices
    /\ nb_epoch = 0
    /\ pc = "idle"
    /\ InitCommon

\* ------------------------------------------------- on_epoch_end, line 8
Enter(e, ref) ==
    /\ arg_epoch' = e
    /\ logs_ref' = ref
    /\ ncalls' = ncalls + 1
    /\ y_pred' = Unbound
    /\ auc' = Unbound
    /\ exc' = NoExc
    /\ steps' = <<>>
    /\ pc' = "line9"

\* faulty variant: predict on the whole of validation_data, labels included
Line9AllData ==
    /\ pc = "line9"
    /\ y_pred' = Bound(Predict(weights, validation_data))
    /\ steps' = Append(steps, <<"predict", validation_data, "ok">>)
    /\ pc' = "line10"
    /\ UNCHANGED <<host, context, nb_epoch, epoch, ncalls, arg_epoch, logs_ref,
                   auc, exc, out>>

\* line 9: y_pred = self.model.predict(self.model.validation_data[:-1])
Line9 ==
    /\ pc = "line9"
    /\ y_pred' = Bound(Predict(weights, ButLast(validation_data)))
    /\ steps' = Append(steps, <<"predict", ButLast(validation_data), "ok">>)
    /\ pc' = "line10"
    /\ UNCHANGED <<host, context, nb_epoch, epoch, ncalls, arg_epoch, logs_ref,
                   auc, exc, out>>

\* faulty variant: the predictor's failure caught in on_epoch_end, the epoch skipped
Line9RaiseCaught ==
    /\ pc = "line9"
    /\ steps' = Append(steps, <<"predict", ButLast(validation_data), "raised">>)
    /\ pc' = "returned"
    /\ UNCHANGED <<host, context, nb_epoch, epoch, ncalls, arg_epoch, logs_ref,
                   y_pred, auc, exc, out>>

\* line 9, the predictor failing: nothing in on_epoch_end catches it
Line9Raise ==
    /\ pc = "line9"
    /\ exc' = PredictError
    /\ steps' = Append(steps, <<"predict", ButLast(validation_data), "raised">>)
    /\ pc' = "raised"
    /\ UNCHANGED <<host, context, nb_epoch, epoch, ncalls, arg_epoch, logs_ref,
                   y_pred, auc, out>>

\* faulty variant: the arguments of roc_auc_score swapped
Line10Swapped ==
    /\ pc = "line10"
    /\ LET r == roc_auc_score(ValueOf(y_pred), Last(validation_data))
       IN /\ steps' = Append(steps, <<"roc_auc_score", ValueOf(y_pred),
                                      Last(validation_data), IF r.ok THEN "ok" ELSE "raised">>)
          /\ IF r.ok
             THEN /\ auc' = Bound(r.value)
                  /\ pc' = "line11"
                  /\ exc' = exc
             ELSE /\ auc' = auc
                  /\ pc' = "raised"
                  /\ exc' = r.exc
    /\ UNCHANGED <<host, context, nb_epoch, epoch, ncalls, arg_epoch, logs_ref,
                   y_pred, out>>

\* line 10: auc = roc_auc_score(self.model.validation_data[-1], y_pred)
Line10 ==
    /\ pc = "line10"
    /\ LET r == roc_auc_score(Last(validation_data), ValueOf(y_pred))
       IN /\ steps' = Append(steps, <<"roc_auc_score", Last(validation_data),
                                      ValueOf(y_pred), IF r.ok THEN "ok" ELSE "raised">>)
          /\ IF r.ok
             THEN /\ auc' = Bound(r.value)
                  /\ pc' = "line11"
                  /\ exc' = exc
             ELSE /\ auc' = auc
                  /\ pc' = "raised"
                  /\ exc' = r.exc
    /\ UNCHANGED <<host, context, nb_epoch, epoch, ncalls, arg_epoch, logs_ref,
                   y_pred, out>>

\* faulty variant: the AUC also stored into the logs mapping the call was given
StoreAuc(m, a) == [k \in DOMAIN m \cup {"val_auc"} |-> IF k = "val_auc" THEN a[1] ELSE m[k]]

Line11StoreAuc ==
    /\ pc = "line11"
    /\ out' = Append(out, Format(ValueOf(auc)))
    /\ steps' = Append(steps, <<"print", Format(ValueOf(auc))>>)
    /\ pc' = "returned"
    /\ IF logs_ref = "default"
       THEN /\ default_logs' = StoreAuc(default_logs, ValueOf(auc))
            /\ host_logs' = host_logs
       ELSE /\ host_logs' = StoreAuc(host_logs, ValueOf(auc))
            /\ default_logs' = default_logs
    /\ UNCHANGED <<host, validation_data, weights, nb_epoch, epoch, ncalls,
                   arg_epoch, logs_ref, y_pred, auc, exc>>

\* faulty variant: a line is printed only when the AUC differs from the last one printed
Line11OnChange ==
    /\ pc = "line11"
    /\ out' = IF out # <<>> /\ Last(out) = Format(ValueOf(auc))
              THEN out
              ELSE Append(out, Format(ValueOf(auc)))
    /\ steps' = Append(steps, <<"print", Format(ValueOf(auc))>>)
    /\ pc' = "returned"
    /\ UNCHANGED <<host, context, nb_epoch, epoch, ncalls, arg_epoch, logs_ref,
                   y_pred, auc, exc>>

\* faulty variant: the line carries the epoch index as well
Line11Tagged ==
    /\ pc = "line11"
    /\ out' = Append(out, <<Prefix, ValueOf(auc), arg_epoch>>)
    /\ steps' = Append(steps, <<"print", <<Prefix, ValueOf(auc), arg_epoch>>>>)
    /\ pc' = "returned"
    /\ UNCHANGED <<host, context, nb_epoch, epoch, ncalls, arg_epoch, logs_ref,
                   y_pred, auc, exc>>

\* faulty variant: the observer keeps a history and prints how many values it holds
Line11History ==
    /\ pc = "line11"
    /\ out' = Append(out, <<Prefix, ValueOf(auc), Len(out) + 1>>)
    /\ steps' = Append(steps, <<"print", <<Prefix, ValueOf(auc), Len(out) + 1>>>>)
    /\ pc' = "returned"
    /\ UNCHANGED <<host, context, nb_epoch, epoch, ncalls, arg_epoch, logs_ref,
                   y_pred, auc, exc>>

\* line 11: print("\nEpoch validation AUC: {}\n".format(auc)), then return
Line11 ==
    /\ pc = "line11"
    /\ out' = Append(out, Format(ValueOf(auc)))
    /\ steps' = Append(steps, <<"print", Format(ValueOf(auc))>>)
    /\ pc' = "returned"
    /\ UNCHANGED <<host, context, nb_epoch, epoch, ncalls, arg_epoch, logs_ref,
                   y_pred, auc, exc>>

\* ------------------------------------------------- host: the fit loop
TrainEpoch ==
    /\ host = "fit"
    /\ pc = "train"
    /\ epoch < nb_epoch
    /\ weights' \in [DOMAIN weights -> Scores]
    /\ pc' = "epoch_end"
    /\ UNCHANGED <<host, validation_data, default_logs, host_logs, nb_epoch,
                   epoch, ncalls, arg_epoch, logs_ref, y_pred, auc, exc, steps, out>>

FitInvoke ==
    /\ host = "fit"
    /\ pc = "epoch_end"
    /\ Enter(epoch, "host")
    /\ UNCHANGED <<host, context, nb_epoch, epoch, out>>

FitReturn ==
    /\ host = "fit"
    /\ pc = "returned"
    /\ epoch' = epoch + 1
    /\ pc' = IF epoch + 1 = nb_epoch THEN "done" ELSE "train"
    /\ y_pred' = Unbound
    /\ auc' = Unbound
    /\ UNCHANGED <<host, context, nb_epoch, ncalls, arg_epoch, logs_ref, exc,
                   steps, out>>

FitAbort ==
    /\ host = "fit"
    /\ pc = "raised"
    /\ pc' = "aborted"
    /\ y_pred' = Unbound
    /\ auc' = Unbound
    /\ UNCHANGED <<host, context, nb_epoch, epoch, ncalls, arg_epoch, logs_ref,
                   exc, steps, out>>

\* ------------------------------------------------- host: a direct caller
EpochArgs == 0..1

DirectCall ==
    /\ host = "direct"
    /\ pc = "idle"
    /\ ncalls < MaxCalls
    /\ \E e \in EpochArgs, ref \in {"default", "host"} : Enter(e, ref)
    /\ UNCHANGED <<host, context, nb_epoch, epoch, out>>

DirectReturn ==
    /\ host = "direct"
    /\ pc \in {"returned", "raised"}
    /\ pc' = "idle"
    /\ y_pred' = Unbound
    /\ auc' = Unbound
    /\ arg_epoch' = 0
    /\ logs_ref' = "default"
    /\ UNCHANGED <<host, context, nb_epoch, epoch, ncalls, exc, steps, out>>

\* ------------------------------------------------------- specifications
OnEpochEnd == Line9 \/ Line9Raise \/ Line10 \/ Line11

Next == TrainEpoch \/ FitInvoke \/ OnEpochEnd \/ FitReturn \/ FitAbort

NextCalls == DirectCall \/ OnEpochEnd \/ DirectReturn

Spec == Init /\ [][Next]_vars

SpecCalls == InitCalls /\ [][NextCalls]_vars

\* ------------------------------------------------------ claim vocabulary
ValLabels == Last(validation_data)
ValInputs == ButLast(validation_data)
TwoClass == Cardinality(Classes(ValLabels)) = 2
OneClass == Cardinality(Classes(ValLabels)) = 1
Aligned == Len(ValLabels) = Len(ValInputs[1])
InCall == pc \in {"line9", "line10", "line11"}
Failed == pc \in {"raised", "aborted"}

Positives(y) == {i \in DOMAIN y : y[i] = 1}
Negatives(y) == {i \in DOMAIN y : y[i] = 0}

\* twice the number of (positive, negative) pairs ranked correctly, a tie
\* counting one half
PairNum(y, s) ==
    2 * Cardinality({p \in Positives(y) \X Negatives(y) : s[p[1]] > s[p[2]]})
    + Cardinality({p \in Positives(y) \X Negatives(y) : s[p[1]] = s[p[2]]})

PerfectRanking(y, s) == \A i \in Positives(y), j \in Negatives(y) : s[i] > s[j]
ReverseRanking(y, s) == \A i \in Positives(y), j \in Negatives(y) : s[i] < s[j]

\* C1: with single-class validation labels the AUC failure is caught inside
\* on_epoch_end: no ValueError ever reaches the host.
C1_SingleClassCaught ==
    OneClass => ~(Failed /\ exc.kind = "ValueError")

\* C2: with a prediction whose length differs from the labels' the metric is
\* skipped and on_epoch_end returns normally: no ValueError reaches the host.
C2_ShapeMismatchSkipped ==
    (TwoClass /\ ~Aligned) => ~(Failed /\ exc.kind = "ValueError")

\* C3: a failure of predict leaves on_epoch_end as it is and reaches the
\* host; roc_auc_score and print are not called and nothing is written.
C3_PredictFailurePropagates ==
    (steps # <<>> /\ steps[1][3] = "raised") =>
        /\ Failed
        /\ exc = PredictError
        /\ Len(steps) = 1
        /\ y_pred = Unbound
        /\ auc = Unbound
        /\ Len(out) = ncalls - 1

C3_Witness ==
    /\ pc = "aborted"
    /\ exc = PredictError
    /\ ncalls = 2
    /\ Len(out) = 1

\* C4: no step of any on_epoch_end call, whatever its epoch index and logs
\* argument, changes the validation data, the predictor state, the logs
\* mapping passed in or the default logs object.
C4_ContextUnchanged == [][context' = context]_vars

C4_Witness ==
    /\ pc = "returned"
    /\ ncalls = 2
    /\ logs_ref = "default"
    /\ arg_epoch = 1
    /\ Len(out) = 2

\* C5: in a training run the number of reports equals the number of epochs
\* whose callback has returned, each report is written before the next
\* epoch starts, and each has the form "Epoch validation AUC: <value>".
C5_OneReportPerEpoch ==
    /\ Len(out) = (IF pc = "returned" THEN epoch + 1 ELSE epoch)
    /\ \A i \in 1..Len(out) : out[i][1] = Prefix /\ Len(out[i][2]) = 2

C5_Witness ==
    /\ pc = "done"
    /\ epoch = 2
    /\ Len(out) = 2
    /\ TwoClass /\ Aligned

\* C6 as stated: every report carries its call's epoch index, so reports of
\* different epochs differ.
C6_ReportsDistinguishable ==
    \A i, j \in 1..Len(out) : i # j => out[i] # out[j]

\* C6 amended: a report is the prefix and the AUC and nothing else; the
\* epoch it belongs to is given by its position only (the report of epoch
\* index n is line n + 1 of the output).
C6_ReportByPositionOnly ==
    /\ \A i \in 1..Len(out) : out[i] = Format(out[i][2])
    /\ InCall => Len(out) = arg_epoch
    /\ pc = "returned" => Len(out) = arg_epoch + 1

C6_Witness ==
    /\ Len(out) = 2
    /\ out[1] = out[2]

\* C7: calls on the same predictor state and validation data print the same
\* line, the first call's included, and a call that roc_auc_score rejects
\* is rejected every time.
C7_SameInputsSameOutput ==
    /\ \A i, j \in 1..Len(out) : out[i] = out[j]
    /\ exc.kind = "ValueError" => out = <<>>

C7_Witness ==
    /\ pc = "idle"
    /\ ncalls = 2
    /\ Len(out) = 2

\* C8: with labels of both classes and as many scores as labels,
\* roc_auc_score yields a value, and it lies in [0, 1].
C8_AucInUnitInterval ==
    (TwoClass /\ Aligned) =>
        /\ exc.kind # "ValueError"
        /\ auc # Unbound =>
              /\ ValueOf(auc)[2] > 0
              /\ 0 <= ValueOf(auc)[1]
              /\ ValueOf(auc)[1] <= ValueOf(auc)[2]
        /\ pc \in {"line11", "returned"} => auc # Unbound

C8_Witness ==
    /\ pc = "line11"
    /\ TwoClass /\ Aligned
    /\ 0 < ValueOf(auc)[1]
    /\ ValueOf(auc)[1] < ValueOf(auc)[2]

\* C9: the AUC computed is the pairwise reference: the share of (positive,
\* negative) pairs with the positive scored higher, ties one half; 1 for a
\* perfect ranking, 0 for the reverse, 0.75 for the documented scenario.
C9_AucIsPairwiseReference ==
    auc # Unbound =>
        LET y == ValLabels
            s == Predict(weights, ValInputs)
            num == ValueOf(auc)[1]
            den == ValueOf(auc)[2]
        IN /\ den = 2 * Cardinality(Positives(y)) * Cardinality(Negatives(y))
           /\ num = PairNum(y, s)
           /\ PerfectRanking(y, s) => num = den
           /\ ReverseRanking(y, s) => num = 0
           /\ (y = <<0, 0, 1, 1>> /\ s = <<10, 40, 35, 80>>) => 4 * num = 3 * den

C9_Witness ==
    /\ pc = "line11"
    /\ ValLabels = <<0, 0, 1, 1>>
    /\ ValueOf(y_pred) = <<10, 40, 35, 80>>
    /\ auc = Bound(<<6, 8>>)

\* C10: a call makes its library calls in the order predict, roc_auc_score,
\* print; predict once, on validation_data[:-1]; roc_auc_score on
\* validation_data[-1] and that prediction; print only after both
\* succeeded, so a failed call adds no line to the output.
C10_StepOrder ==
    /\ Len(steps) <= 3
    /\ Cardinality({i \in 1..Len(steps) : steps[i][1] = "predict"}) <= 1
    /\ pc \in {"line10", "line11", "returned", "raised"} =>
          Cardinality({i \in 1..Len(steps) : steps[i][1] = "predict"}) = 1
    /\ Len(steps) >= 1 =>
          /\ steps[1][1] = "predict"
          /\ steps[1][2] = ValInputs
    /\ Len(steps) >= 2 =>
          /\ steps[1][3] = "ok"
          /\ steps[2][1] = "roc_auc_score"
          /\ steps[2][2] = ValLabels
          /\ pc \in {"line11", "returned", "raised"} =>
                steps[2][3] = Predict(weights, ValInputs)
    /\ Len(steps) = 3 =>
          /\ steps[2][4] = "ok"
          /\ steps[3][1] = "print"
          /\ steps[3][2] = Last(out)
          /\ steps[3][2] = Format(roc_auc_score(steps[2][2], steps[2][3]).value)
    /\ pc = "line10" => Len(steps) = 1
    /\ pc = "line11" => Len(steps) = 2
    /\ pc = "returned" => Len(steps) = 3
    /\ Failed => /\ Len(steps) < 3
                 /\ steps[Len(steps)][Len(steps[Len(steps)])] = "raised"
                 /\ Len(out) = ncalls - 1

C10_Witness ==
    /\ pc = "returned"
    /\ Len(steps) = 3
    /\ Len(validation_data) = 3
    /\ ncalls = 2

====
